---- MODULE Spec2Model ----
(***************************************************************************)
(* Model of data_service.py: the DataService client of the Trading         *)
(* Strategy API (get_chain_data, get_exchange_data, get_pairs_data,        *)
(* get_ohlcv_candles).                                                     *)
(*                                                                         *)
(* Strings are sequences of lexemes.  The query delimiters "?", "&", "=",  *)
(* "#" and "," are always lexemes of their own; every other lexeme is a    *)
(* run of characters that holds none of them.  String concatenation is     *)
(* sequence concatenation, so an f-string is the concatenation of its      *)
(* literal parts and of the formatted values.                              *)
(*                                                                         *)
(* A Python value that is either an int or a str is tagged: [int |-> n]    *)
(* or [str |-> s].  An ordered dict is a sequence of [key, value] entries  *)
(* in insertion order.  A DataFrame is the sequence of its rows.           *)
(***************************************************************************)
EXTENDS Integers, Sequences, FiniteSets, TLC

VARIABLES
    api_url,        \* self.api_url
    ctor_api_url,   \* the api_url argument the instance was constructed with
    pc,             \* "idle", "reading", "building", "done", "error"
    op,             \* the method being executed ("none" when idle)
    args,           \* the arguments of the call being executed
    url,            \* the URL handed to requests.get
    status,         \* HTTP status of the response (0: no response)
    body,           \* the response body: JSON lines, or the elements of a JSON array
    pos,            \* number of lines the jsonlines reader has consumed
    stream_open,    \* the streamed HTTP response holds its connection
    candle_dict,    \* local candle_dict of get_ohlcv_candles
    return_dict,    \* local return_dict of get_ohlcv_candles
    gi,             \* number of candle_dict items the second loop has processed
    result,         \* the value returned to the caller (meaningful when pc = "done")
    err,            \* the exception raised to the caller (meaningful when pc = "error")
    calls           \* number of calls made on the instance so far

vars == <<api_url, ctor_api_url, pc, op, args, url, status, body, pos,
          stream_open, candle_dict, return_dict, gi, result, err, calls>>

(***************************************************************************)
(* Bounds of the model.                                                    *)
(***************************************************************************)
MaxLines == 3       \* longest candle line-stream
MaxRows == 2        \* longest chains / exchanges / pairs response array
MaxCalls == 2       \* calls made on one instance

(***************************************************************************)
(* Program constants.                                                      *)
(***************************************************************************)
DefaultMaxBytes == 250000000
DefaultNPairs == 5

DefaultApiUrl == <<"https://tradingstrategy.ai/api/">>
DefaultTimeBucket == <<"15m">>
DefaultFilterZeroVolume == <<"true">>
DefaultSort == <<"volume_30d">>
DefaultFilter == <<"min_liquidity_1M">>

(***************************************************************************)
(* Values and strings.                                                     *)
(***************************************************************************)
I(n) == [int |-> n]
S(s) == [str |-> s]

\* str(x) / the {x} of an f-string: decimal digits of an int, a str unchanged.
Str(x) == IF "int" \in DOMAIN x THEN <<ToString(x.int)>> ELSE x.str

RECURSIVE Join(_, _)
\* sep.join(parts)
Join(sep, parts) ==
    IF Len(parts) = 0 THEN <<>>
    ELSE IF Len(parts) = 1 THEN parts[1]
    ELSE parts[1] \o sep \o Join(sep, Tail(parts))

\* map(str, xs)
MapStr(xs) == [i \in 1..Len(xs) |-> Str(xs[i])]

(***************************************************************************)
(* Request URLs.                                                           *)
(***************************************************************************)
\* api_extension of get_exchange_data
ExchangesExtension(selected_chain, filter_zero_volume) ==
    <<"exchanges", "?", "chain_slug", "=">> \o selected_chain
    \o <<"&", "sort", "=", "usd_volume_30d", "&", "direction", "=", "desc",
         "&", "filter_zero_volume", "=">> \o filter_zero_volume

\* api_extension of get_pairs_data with the filter written into the literal
\* (a plausible bug: the default always wins)
PairsExtensionFixedFilter(exc_slugs, chain_slugs, n_pairs, sort, filter) ==
    <<"pairs", "?", "exchange_slugs", "=">> \o Join(<<",">>, exc_slugs)
    \o <<"&", "chain_slugs", "=">> \o Join(<<",">>, chain_slugs)
    \o <<"&", "page", "=", "0", "&", "page_size", "=">> \o Str(n_pairs)
    \o <<"&", "sort", "=">> \o sort
    \o <<"&", "direction", "=", "desc", "&", "filter", "=">> \o DefaultFilter
    \o <<"&", "eligible_only", "=", "true", "&", "format", "=", "json">>

\* api_extension of get_pairs_data
PairsExtension(exc_slugs, chain_slugs, n_pairs, sort, filter) ==
    <<"pairs", "?", "exchange_slugs", "=">> \o Join(<<",">>, exc_slugs)
    \o <<"&", "chain_slugs", "=">> \o Join(<<",">>, chain_slugs)
    \o <<"&", "page", "=", "0", "&", "page_size", "=">> \o Str(n_pairs)
    \o <<"&", "sort", "=">> \o sort
    \o <<"&", "direction", "=", "desc", "&", "filter", "=">> \o filter
    \o <<"&", "eligible_only", "=", "true", "&", "format", "=", "json">>

\* api_extension of get_ohlcv_candles
CandlesExtension(pair_ids, start_time, end_time, time_bucket, max_bytes) ==
    <<"candles-jsonl", "?", "pair_ids", "=">> \o Join(<<",">>, MapStr(pair_ids))
    \o <<"&", "time_bucket", "=">> \o time_bucket
    \o <<"&", "start", "=">> \o start_time
    \o <<"&", "end", "=">> \o end_time
    \o <<"&", "max_bytes", "=">> \o Str(max_bytes)

\* self.api_url + api_extension, with self.api_url assigned (a plausible bug)
RequestUrlKeepsExtension(base, extension) ==
    [url |-> base \o extension, api_url |-> base \o extension]

\* self.api_url + api_extension: the URL requested, and self.api_url afterwards
RequestUrl(base, extension) ==
    [url |-> base \o extension, api_url |-> base]

(***************************************************************************)
(* JSON objects, ordered dicts and DataFrames.                             *)
(***************************************************************************)
HasKey(d, k) == \E i \in 1..Len(d) : d[i].key = k

KeyIndex(d, k) == CHOOSE i \in 1..Len(d) : d[i].key = k

\* d[k] = v
DictSet(d, k, v) ==
    IF HasKey(d, k)
    THEN [d EXCEPT ![KeyIndex(d, k)] = [key |-> k, value |-> v]]
    ELSE Append(d, [key |-> k, value |-> v])

\* candle_dict[pair_id] = [item] (a plausible bug: the group is overwritten)
GroupOverwrite(d, k, item) == DictSet(d, k, <<item>>)

\* candle_dict[pair_id].insert(0, item) (a plausible bug: the order is reversed)
GroupPrepend(d, k, item) ==
    IF HasKey(d, k)
    THEN [d EXCEPT ![KeyIndex(d, k)].value = <<item>> \o @]
    ELSE Append(d, [key |-> k, value |-> <<item>>])

\* candle_dict[pair_id].append(item), candle_dict a defaultdict(list)
GroupAppend(d, k, item) ==
    IF HasKey(d, k)
    THEN [d EXCEPT ![KeyIndex(d, k)].value = Append(@, item)]
    ELSE Append(d, [key |-> k, value |-> <<item>>])

\* item["ts"] taken as the group key (a plausible bug: the wrong field)
PairKeyFromTs(item) == item["ts"]

\* pair_id = item["p"]
PairKey(item) == item["p"]

\* pd.to_datetime(ts, unit="s"): seconds since the epoch to a nanosecond timestamp
ToDatetime(ts) == [i \in 1..Len(ts) |-> [ns |-> ts[i] * 1000000000]]

\* [val[f] for val in value]
Column(value, f) == [i \in 1..Len(value) |-> value[i][f]]

\* the fields the second loop of get_ohlcv_candles reads from every record
FrameFields == {"ts", "o", "h", "l", "c", "v"}

\* pd.DataFrame(data={"Open": ..., ...}, index=pd.to_datetime(ts, unit="s"))
CandleFrame(value) ==
    LET ts == Column(value, "ts")
        open == Column(value, "o")
        high == Column(value, "h")
        low == Column(value, "l")
        close == Column(value, "c")
        volume == Column(value, "v")
        index == ToDatetime(ts)
    IN [i \in 1..Len(index) |->
            [index |-> index[i], Open |-> open[i], High |-> high[i],
             Low |-> low[i], Close |-> close[i], Volume |-> volume[i]]]

\* jsonlines.Reader.iter(skip_invalid=True) (a plausible bug: bad lines are dropped)
ReaderSkipsInvalid == TRUE

\* jsonlines.Reader.__iter__: iter() with skip_invalid=False
ReaderSkipInvalid == FALSE

\* the elements all carry the keys the list comprehensions read
Complete(arr, fields) == \A i \in 1..Len(arr) : fields \subseteq DOMAIN arr[i]

\* chain rows labelled by position instead of chain_id (a plausible bug: index dropped)
ChainTablePositional(arr) ==
    [i \in 1..Len(arr) |->
        [index |-> i, name |-> arr[i]["chain_name"], slug |-> arr[i]["chain_slug"]]]

\* the DataFrame of get_chain_data
ChainTable(arr) ==
    LET chain_names == Column(arr, "chain_name")
        chain_slugs == Column(arr, "chain_slug")
        chain_id == Column(arr, "chain_id")
    IN [i \in 1..Len(chain_id) |->
            [index |-> chain_id[i], name |-> chain_names[i], slug |-> chain_slugs[i]]]

\* the DataFrame of get_exchange_data
ExchangeTable(arr) ==
    LET exc_names == Column(arr, "exchange_slug")
        exc_vol == Column(arr, "usd_volume_30d")
        exc_id == Column(arr, "exchange_id")
    IN [i \in 1..Len(exc_id) |->
            [index |-> exc_id[i], slug |-> exc_names[i], volume |-> exc_vol[i]]]

\* the DataFrame of get_pairs_data
PairTable(arr) ==
    LET pair_id == Column(arr, "pair_id")
        pair_slug == Column(arr, "pair_slug")
        pair_exc == Column(arr, "exchange_slug")
        pair_vol == Column(arr, "usd_volume_24h")
        pair_tvl == Column(arr, "pair_tvl")
    IN [i \in 1..Len(pair_id) |->
            [index |-> pair_id[i], pair_slug |-> pair_slug[i],
             pair_exchange |-> pair_exc[i], usd_vol_24h |-> pair_vol[i],
             pair_tvl |-> pair_tvl[i]]]

ChainFields == {"chain_name", "chain_slug", "chain_id"}
ExchangeFields == {"exchange_slug", "usd_volume_30d", "exchange_id"}
PairFields == {"pair_id", "pair_slug", "exchange_slug", "usd_volume_24h", "pair_tvl"}

(***************************************************************************)
(* The inputs the model draws from: arguments of the calls and responses   *)
(* of the server.                                                          *)
(***************************************************************************)
\* obj without the key f
Drop(obj, f) == [x \in DOMAIN obj \ {f} |-> obj[x]]

SeqsUpTo(set, n) == UNION {[1..k -> set] : k \in 0..n}

ApiUrls == {DefaultApiUrl, <<"http://localhost:8000/api/">>}

HttpStatuses == {200, 404}

Is2xx(s) == s \div 100 = 2

\* a candle record of pair p: every field holds a value of its own
Candle(p, n) ==
    [p |-> p, ts |-> n, o |-> 100 * p + 10 * n + 1, h |-> 100 * p + 10 * n + 2,
     l |-> 100 * p + 10 * n + 3, c |-> 100 * p + 10 * n + 4,
     v |-> 100 * p + 10 * n + 5]

CandleFields == {"p", "ts", "o", "h", "l", "c", "v"}

ValidCandles == {Candle(1, 1), Candle(1, 2), Candle(2, 1)}

\* a line of the response: a JSON object, or text that is not JSON
JsonLine(obj) == [kind |-> "json", obj |-> obj]
InvalidLine == [kind |-> "invalid"]

LinePool ==
    {JsonLine(r) : r \in ValidCandles}
    \cup {JsonLine(Drop(Candle(1, 1), f)) : f \in {"p", "v"}}
    \cup {InvalidLine}

LineStreams == SeqsUpTo(LinePool, MaxLines)

\* the calls of get_ohlcv_candles: time_bucket and max_bytes left to their
\* defaults or given, one or several pair ids, plain timestamps and timestamps
\* that hold a reserved character
CandleCall(pair_ids, start_time, end_time, time_bucket, max_bytes) ==
    [pair_ids |-> pair_ids, start_time |-> start_time, end_time |-> end_time,
     time_bucket |-> time_bucket, max_bytes |-> max_bytes]

CandleCalls ==
    {CandleCall(<<I(1)>>, <<"2024-01-01">>, <<"2024-02-01">>,
                DefaultTimeBucket, I(DefaultMaxBytes)),
     CandleCall(<<I(1), S(<<"2">>)>>, <<"2024-01-01">>, <<"2024-02-01">>,
                <<"1h">>, I(1000)),
     CandleCall(<<I(1), I(2)>>, <<"2024-01-01", "&", "max_bytes", "=", "1">>,
                <<"2024-02-01">>, DefaultTimeBucket, I(DefaultMaxBytes)),
     CandleCall(<<S(<<"2">>)>>, <<"2024-01-01">>, <<"2024-02-01", "#", "x">>,
                DefaultTimeBucket, I(DefaultMaxBytes)),
     CandleCall(<<I(2)>>, <<"2024-01-01">>, <<"2024-02-01">>,
                <<"1d", "=", "x">>, I(DefaultMaxBytes))}

ChainPool ==
    {[chain_id |-> 1, chain_name |-> "Ethereum", chain_slug |-> "ethereum"],
     [chain_id |-> 56, chain_name |-> "Binance", chain_slug |-> "binance"],
     [chain_id |-> 1, chain_name |-> "Classic", chain_slug |-> "classic"],
     [chain_id |-> 137, chain_name |-> "Polygon"]}

ExchangePool ==
    {[exchange_id |-> 1, exchange_slug |-> "uniswap-v3", usd_volume_30d |-> 900],
     [exchange_id |-> 2, exchange_slug |-> "sushi", usd_volume_30d |-> 0],
     [exchange_id |-> 3, exchange_slug |-> "quickswap"]}

PairPool ==
    {[pair_id |-> 1, pair_slug |-> "eth-usdc", exchange_slug |-> "uniswap-v3",
      usd_volume_24h |-> 70, pair_tvl |-> 500],
     [pair_id |-> 2, pair_slug |-> "eth-usdt", exchange_slug |-> "sushi",
      usd_volume_24h |-> 30, pair_tvl |-> 200],
     [pair_id |-> 3, pair_slug |-> "wbtc-eth", exchange_slug |-> "sushi",
      usd_volume_24h |-> 10]}

ChainSlugs == {<<"ethereum">>, <<"arbitrum", "&", "sort", "=", "x">>}

FilterZeroVolumes == {DefaultFilterZeroVolume, <<"false">>}

\* the exc_slugs and chain_slugs lists of a get_pairs_data call
SlugLists ==
    {[exc_slugs |-> <<<<"uniswap-v3">>>>, chain_slugs |-> <<<<"ethereum">>>>],
     [exc_slugs |-> <<<<"uniswap-v3">>, <<"sushi">>>>,
      chain_slugs |-> <<<<"ethereum">>, <<"arbitrum">>>>]}

NPairsValues == {I(DefaultNPairs), I(1)}

Sorts == {DefaultSort, <<"tvl">>}

\* the filter argument: absent (the default applies) or a supplied token
NoFilter == [given |-> FALSE]
Filters ==
    {NoFilter}
    \cup {[given |-> TRUE, value |-> f] :
            f \in {<<"unfiltered">>, <<"min_liquidity_1M">>, <<"a", "&", "b">>}}

(***************************************************************************)
(* The state machine.                                                      *)
(***************************************************************************)
NoArgs == [none |-> TRUE]

\* the locals of a call that is not running
LocalsCleared ==
    /\ op' = "none"
    /\ args' = NoArgs
    /\ url' = <<>>
    /\ status' = 0
    /\ body' = <<>>
    /\ pos' = 0
    /\ stream_open' = FALSE
    /\ candle_dict' = <<>>
    /\ return_dict' = <<>>
    /\ gi' = 0
    /\ result' = <<>>
    /\ err' = "none"

\* DataService.__init__
Init ==
    /\ ctor_api_url \in ApiUrls
    /\ api_url = ctor_api_url
    /\ pc = "idle"
    /\ op = "none"
    /\ args = NoArgs
    /\ url = <<>>
    /\ status = 0
    /\ body = <<>>
    /\ pos = 0
    /\ stream_open = FALSE
    /\ candle_dict = <<>>
    /\ return_dict = <<>>
    /\ gi = 0
    /\ result = <<>>
    /\ err = "none"
    /\ calls = 0

\* A non-streaming call: the request, the JSON array of the response, the table.
\* connected = FALSE: requests.get raises (no response).
Listing(name, a, extension, connected, st, arr, fields, table) ==
    LET r == RequestUrl(api_url, extension)
    IN /\ calls < MaxCalls
       /\ calls' = calls + 1
       /\ op' = name
       /\ args' = a
       /\ url' = r.url
       /\ api_url' = r.api_url
       /\ status' = IF connected THEN st ELSE 0
       /\ body' = IF connected THEN arr ELSE <<>>
       /\ pc' = IF connected /\ Complete(arr, fields) THEN "done" ELSE "error"
       /\ result' = IF connected /\ Complete(arr, fields) THEN table ELSE <<>>
       /\ err' = IF ~connected THEN "ConnectionError"
                 ELSE IF ~Complete(arr, fields) THEN "KeyError" ELSE "none"
       /\ UNCHANGED <<ctor_api_url, pos, stream_open, candle_dict, return_dict, gi>>

get_chain_data ==
    /\ pc = "idle"
    /\ \E connected \in BOOLEAN, st \in HttpStatuses, arr \in SeqsUpTo(ChainPool, MaxRows) :
        Listing("get_chain_data", NoArgs, <<"chains">>, connected, st, arr,
                ChainFields, IF Complete(arr, ChainFields) THEN ChainTable(arr) ELSE <<>>)

get_exchange_data ==
    /\ pc = "idle"
    /\ \E selected_chain \in ChainSlugs, filter_zero_volume \in FilterZeroVolumes,
       connected \in BOOLEAN, st \in HttpStatuses,
       arr \in SeqsUpTo(ExchangePool, MaxRows) :
        Listing("get_exchange_data",
                [selected_chain |-> selected_chain,
                 filter_zero_volume |-> filter_zero_volume],
                ExchangesExtension(selected_chain, filter_zero_volume),
                connected, st, arr, ExchangeFields,
                IF Complete(arr, ExchangeFields) THEN ExchangeTable(arr) ELSE <<>>)

get_pairs_data ==
    /\ pc = "idle"
    /\ \E slugs \in SlugLists,
       n_pairs \in NPairsValues, sort \in Sorts, filter \in Filters,
       connected \in BOOLEAN, st \in HttpStatuses,
       arr \in SeqsUpTo(PairPool, MaxRows) :
        Listing("get_pairs_data",
                [exc_slugs |-> slugs.exc_slugs, chain_slugs |-> slugs.chain_slugs,
                 n_pairs |-> n_pairs, sort |-> sort, filter |-> filter],
                PairsExtension(slugs.exc_slugs, slugs.chain_slugs, n_pairs, sort,
                               IF filter.given THEN filter.value ELSE DefaultFilter),
                connected, st, arr, PairFields,
                IF Complete(arr, PairFields) THEN PairTable(arr) ELSE <<>>)

\* get_ohlcv_candles up to the creation of reader and candle_dict
get_ohlcv_candles ==
    /\ pc = "idle"
    /\ calls < MaxCalls
    /\ calls' = calls + 1
    /\ \E a \in CandleCalls, connected \in BOOLEAN, st \in HttpStatuses,
          lines \in LineStreams :
        LET r == RequestUrl(api_url,
                     CandlesExtension(a.pair_ids, a.start_time, a.end_time,
                                      a.time_bucket, a.max_bytes))
        IN /\ op' = "get_ohlcv_candles"
           /\ args' = a
           /\ url' = r.url
           /\ api_url' = r.api_url
           /\ status' = IF connected THEN st ELSE 0
           /\ body' = IF connected THEN lines ELSE <<>>
           /\ stream_open' = connected
           /\ pos' = 0
           /\ candle_dict' = <<>>
           /\ pc' = IF connected THEN "reading" ELSE "error"
           /\ err' = IF connected THEN "none" ELSE "ConnectionError"
           /\ UNCHANGED <<ctor_api_url, return_dict, gi, result>>

\* one iteration of "for item in reader"
ReadLine ==
    /\ pc = "reading"
    /\ pos < Len(body)
    /\ LET line == body[pos + 1]
       IN IF line.kind = "invalid"
          THEN IF ReaderSkipInvalid
               THEN /\ pos' = pos + 1
                    /\ UNCHANGED <<pc, err, candle_dict>>
               ELSE /\ pc' = "error"
                    /\ err' = "InvalidLineError"
                    /\ pos' = pos + 1
                    /\ UNCHANGED candle_dict
          ELSE IF "p" \notin DOMAIN line.obj
               THEN /\ pc' = "error"
                    /\ err' = "KeyError"
                    /\ pos' = pos + 1
                    /\ UNCHANGED candle_dict
               ELSE /\ candle_dict' = GroupAppend(candle_dict, PairKey(line.obj), line.obj)
                    /\ pos' = pos + 1
                    /\ UNCHANGED <<pc, err>>
    /\ UNCHANGED <<api_url, ctor_api_url, op, args, url, status, body, stream_open,
                   return_dict, gi, result, calls>>

\* the reader reaches the end of the body: the loop ends, the fully read
\* response releases its connection, return_dict = {}
EndOfStream ==
    /\ pc = "reading"
    /\ pos = Len(body)
    /\ stream_open' = FALSE
    /\ return_dict' = <<>>
    /\ gi' = 0
    /\ pc' = "building"
    /\ UNCHANGED <<api_url, ctor_api_url, op, args, url, status, body, pos,
                   candle_dict, result, err, calls>>

\* one iteration of "for key, value in candle_dict.items()"
BuildFrame ==
    /\ pc = "building"
    /\ gi < Len(candle_dict)
    /\ LET key == candle_dict[gi + 1].key
           value == candle_dict[gi + 1].value
       IN IF Complete(value, FrameFields)
          THEN /\ return_dict' = DictSet(return_dict, key, CandleFrame(value))
               /\ gi' = gi + 1
               /\ UNCHANGED <<pc, err>>
          ELSE /\ pc' = "error"
               /\ err' = "KeyError"
               /\ UNCHANGED <<return_dict, gi>>
    /\ UNCHANGED <<api_url, ctor_api_url, op, args, url, status, body, pos,
                   stream_open, candle_dict, result, calls>>

\* return return_dict
ReturnCandles ==
    /\ pc = "building"
    /\ gi = Len(candle_dict)
    /\ pc' = "done"
    /\ result' = return_dict
    /\ UNCHANGED <<api_url, ctor_api_url, op, args, url, status, body, pos,
                   stream_open, candle_dict, return_dict, gi, err, calls>>

\* the call is over (returned or raised): its locals are gone, the instance stays
CallEnds ==
    /\ pc \in {"done", "error"}
    /\ pc' = "idle"
    /\ LocalsCleared
    /\ UNCHANGED <<api_url, ctor_api_url, calls>>

Next ==
    \/ get_chain_data
    \/ get_exchange_data
    \/ get_pairs_data
    \/ get_ohlcv_candles
    \/ ReadLine
    \/ EndOfStream
    \/ BuildFrame
    \/ ReturnCandles
    \/ CallEnds

Spec == Init /\ [][Next]_vars

(***************************************************************************)
(* Vocabulary of the properties.                                           *)
(***************************************************************************)
Terminated == pc \in {"done", "error"}

InCandles == op = "get_ohlcv_candles"

\* requests.get returned a response
Responded == pc # "idle" /\ err # "ConnectionError"

\* every line is a JSON object that carries p, ts, o, h, l, c, v
ValidStream(lines) ==
    \A i \in 1..Len(lines) :
        lines[i].kind = "json" /\ CandleFields \subseteq DOMAIN lines[i].obj

\* the row a candle record stands for
RowOf(obj) ==
    [index |-> [ns |-> obj.ts * 1000000000], Open |-> obj.o, High |-> obj.h,
     Low |-> obj.l, Close |-> obj.c, Volume |-> obj.v]

RECURSIVE RowsOfPair(_, _)
\* the rows of the lines with p = k, in stream order
RowsOfPair(lines, k) ==
    IF lines = <<>> THEN <<>>
    ELSE IF lines[1].obj.p = k
         THEN <<RowOf(lines[1].obj)>> \o RowsOfPair(Tail(lines), k)
         ELSE RowsOfPair(Tail(lines), k)

Count(seq, x) == Cardinality({i \in 1..Len(seq) : seq[i] = x})

Range(seq) == {seq[i] : i \in 1..Len(seq)}

KeysOf(d) == {d[i].key : i \in 1..Len(d)}

PairsSeen(lines) == {lines[i].obj.p : i \in 1..Len(lines)}

\* index of the first d in s, 0 when there is none
FirstIdx(s, d) ==
    IF \E i \in 1..Len(s) : s[i] = d
    THEN CHOOSE i \in 1..Len(s) : s[i] = d /\ \A j \in 1..(i - 1) : s[j] # d
    ELSE 0

RECURSIVE SplitOn(_, _)
SplitOn(s, d) ==
    LET i == FirstIdx(s, d)
    IN IF i = 0 THEN <<s>>
       ELSE <<SubSeq(s, 1, i - 1)>> \o SplitOn(SubSeq(s, i + 1, Len(s)), d)

\* the query of a URL: after the first "?", before the fragment
QueryOf(u) ==
    LET q == FirstIdx(u, "?")
        afterq == IF q = 0 THEN <<>> ELSE SubSeq(u, q + 1, Len(u))
        h == FirstIdx(afterq, "#")
    IN IF h = 0 THEN afterq ELSE SubSeq(afterq, 1, h - 1)

\* name=value
Param(item) ==
    LET e == FirstIdx(item, "=")
    IN IF e = 0 THEN [name |-> item, value |-> <<>>]
       ELSE [name |-> SubSeq(item, 1, e - 1), value |-> SubSeq(item, e + 1, Len(item))]

\* the parameters a server reads from the URL, in order
QueryParams(u) ==
    IF QueryOf(u) = <<>> THEN <<>>
    ELSE LET items == SplitOn(QueryOf(u), "&")
         IN [i \in 1..Len(items) |-> Param(items[i])]

PercentDecode(x) ==
    CASE x = "%26" -> "&"
      [] x = "%3D" -> "="
      [] x = "%23" -> "#"
      [] x = "%2C" -> ","
      [] x = "%3F" -> "?"
      [] OTHER -> x

Unquote(s) == [i \in 1..Len(s) |-> PercentDecode(s[i])]

EndsWith(s, t) == Len(t) <= Len(s) /\ SubSeq(s, Len(s) - Len(t) + 1, Len(s)) = t

(***************************************************************************)
(* Properties of get_ohlcv_candles.                                        *)
(***************************************************************************)
\* a call of get_ohlcv_candles that got a response made of valid lines is over
CandlesOverValid == InCandles /\ Terminated /\ Responded /\ ValidStream(body)

\* C1: for a valid candle line-stream every input record is in exactly one
\* output series, the one stored under its pair identifier p: the call returns,
\* no key occurs twice, the p of every line is a key, and under every key each
\* row occurs exactly as often as the lines with that p give it (nothing lost,
\* duplicated or filed under another key).
C1_EveryRecordInItsSeries ==
    CandlesOverValid =>
        /\ pc = "done"
        /\ \A i, j \in 1..Len(result) : result[i].key = result[j].key => i = j
        /\ \A i \in 1..Len(body) : body[i].obj.p \in KeysOf(result)
        /\ \A e \in 1..Len(result) :
             \A r \in Range(result[e].value)
                      \cup {RowOf(body[i].obj) : i \in 1..Len(body)} :
                Count(result[e].value, r)
                    = Cardinality({i \in 1..Len(body) :
                                      /\ body[i].obj.p = result[e].key
                                      /\ RowOf(body[i].obj) = r})

\* C1 witness: a returned collection with two series, one of them of two rows
C1_Witness ==
    /\ CandlesOverValid
    /\ pc = "done"
    /\ Len(body) = 3
    /\ Len(result) = 2
    /\ \E e \in 1..Len(result) : Len(result[e].value) = 2

\* C2: for every key k of the result the series has as many rows as there are
\* input lines with p = k, in the order of those lines in the stream, and row N
\* holds the timestamp, Open, High, Low, Close and Volume of the N-th line with
\* p = k.
C2_SeriesIsStreamOrderOfItsPair ==
    (InCandles /\ pc = "done") =>
        \A e \in 1..Len(result) :
            /\ Len(result[e].value)
                 = Cardinality({i \in 1..Len(body) : body[i].obj.p = result[e].key})
            /\ result[e].value = RowsOfPair(body, result[e].key)

\* C2 witness: a series of two rows whose timestamps descend (the stream order
\* is kept, not sorted) returned next to a line of another pair in between
C2_Witness ==
    /\ InCandles
    /\ pc = "done"
    /\ body = <<JsonLine(Candle(1, 2)), JsonLine(Candle(2, 1)), JsonLine(Candle(1, 1))>>
    /\ \E e \in 1..Len(result) :
         /\ Len(result[e].value) = 2
         /\ result[e].value[1].index.ns > result[e].value[2].index.ns

\* C3: the keys of the returned collection are exactly the distinct p values of
\* the stream and no key maps to an empty series; an empty response stream
\* gives an empty collection and no error; a requested pair id that is not in
\* the stream is not a key.
C3_KeysAreThePairsSeen ==
    /\ (InCandles /\ pc = "done") =>
          /\ KeysOf(result) = PairsSeen(body)
          /\ \A e \in 1..Len(result) : result[e].value # <<>>
    /\ (InCandles /\ Terminated /\ Responded /\ body = <<>>) =>
          (pc = "done" /\ result = <<>>)

\* C3 witness: the call returned for an empty response stream
C3_Witness == InCandles /\ pc = "done" /\ Responded /\ body = <<>>

\* C3 witness: pair 2 was requested, only pair 1 is in the stream
C3_WitnessRequestedNotSeen ==
    /\ InCandles
    /\ pc = "done"
    /\ I(2) \in Range(args.pair_ids)
    /\ KeysOf(result) = {1}

\* C4: all or nothing: when a line of the stream is not valid JSON or lacks one
\* of p, ts, o, h, l, c, v, the call ends in an error and returns nothing; no
\* collection is returned unless every line was valid, and nothing is returned
\* before the call is done.
C4_AllOrNothing ==
    /\ (InCandles /\ Terminated /\ Responded /\ ~ValidStream(body)) =>
          (pc = "error" /\ err \in {"InvalidLineError", "KeyError"} /\ result = <<>>)
    /\ (InCandles /\ pc = "done") => ValidStream(body)
    /\ (InCandles /\ pc # "done") => result = <<>>

\* C4 witness: the call raised on the last line, after two valid lines of two pairs
C4_Witness ==
    /\ InCandles
    /\ pc = "error"
    /\ Len(body) = 3
    /\ ValidStream(SubSeq(body, 1, 2))
    /\ ~ValidStream(body)
    /\ Len(candle_dict) = 2
    /\ result = <<>>

\* C4 witness: the offending line lacks v, which only the second loop reads
C4_WitnessLateKeyError ==
    /\ InCandles
    /\ pc = "error"
    /\ err = "KeyError"
    /\ pos = Len(body)
    /\ gi < Len(candle_dict)

\* C5: the response stream opened by get_ohlcv_candles is closed on every exit
\* path: once the call has returned or raised, the stream is no longer open.
C5_StreamClosedOnEveryExit == (InCandles /\ Terminated) => ~stream_open

\* C6: with a non-2xx response get_ohlcv_candles fails with a transport error
\* before any line of the body is parsed: no line is read, nothing is returned,
\* and the error raised is the transport error.
C6_Non2xxFailsBeforeParsing ==
    (InCandles /\ Responded /\ ~Is2xx(status)) =>
        /\ pos = 0
        /\ pc # "done"
        /\ (pc = "error" => err = "TransportError")

\* the five parameters of the candle request, as the caller supplied them
CandleParamsSupplied ==
    <<[name |-> <<"pair_ids">>, value |-> Join(<<",">>, MapStr(args.pair_ids))],
      [name |-> <<"time_bucket">>, value |-> args.time_bucket],
      [name |-> <<"start">>, value |-> args.start_time],
      [name |-> <<"end">>, value |-> args.end_time],
      [name |-> <<"max_bytes">>, value |-> Str(args.max_bytes)]>>

\* C9: the request of get_ohlcv_candles carries exactly the five parameters
\* pair_ids, time_bucket, start, end, max_bytes, each decoding back to the value
\* the caller supplied, whatever reserved character a value holds.
C9_FiveParametersDecodeToSupplied ==
    (InCandles /\ Responded) =>
        LET ps == QueryParams(url)
        IN /\ Len(ps) = 5
           /\ \A i \in 1..5 :
                /\ ps[i].name = CandleParamsSupplied[i].name
                /\ Unquote(ps[i].value) = CandleParamsSupplied[i].value

(***************************************************************************)
(* Properties of the listing calls.                                        *)
(***************************************************************************)
\* C7: get_chain_data returns a table with as many rows as the response array
\* has elements, and the row indexed by a chain_id carries the chain_name and
\* chain_slug of the element that supplied that chain_id; every array of
\* complete elements gives a table.
C7_ChainRowsMatchElements ==
    /\ (op = "get_chain_data" /\ pc = "done") =>
          /\ Len(result) = Len(body)
          /\ \A i \in 1..Len(result) :
                /\ result[i].index = body[i]["chain_id"]
                /\ result[i].name = body[i]["chain_name"]
                /\ result[i].slug = body[i]["chain_slug"]
    /\ (op = "get_chain_data" /\ Terminated /\ Responded
          /\ Complete(body, ChainFields)) => pc = "done"

\* C7 witness: a table of two rows that carry the same chain_id and different names
C7_Witness ==
    /\ op = "get_chain_data"
    /\ pc = "done"
    /\ Len(result) = 2
    /\ result[1].index = result[2].index
    /\ result[1].name # result[2].name

\* the filter token of the running get_pairs_data call
FilterInEffect == IF args.filter.given THEN args.filter.value ELSE DefaultFilter

\* the lexemes of the arguments the caller supplied to get_pairs_data
SuppliedLexemes ==
    Range(args.sort)
    \cup UNION {Range(args.exc_slugs[i]) : i \in 1..Len(args.exc_slugs)}
    \cup UNION {Range(args.chain_slugs[i]) : i \in 1..Len(args.chain_slugs)}
    \cup (IF args.filter.given THEN Range(args.filter.value) ELSE {})

\* C8: get_pairs_data forwards the filter token verbatim: the request ends with
\* &filter=<token>&eligible_only=true&format=json, the token being the supplied
\* one, or min_liquidity_1M when the caller supplies none; min_liquidity_1M is
\* in the request only when no filter is supplied or the caller supplied it.
C8_FilterForwardedVerbatim ==
    (op = "get_pairs_data" /\ pc # "idle") =>
        /\ EndsWith(url, <<"&", "filter", "=">> \o FilterInEffect
                         \o <<"&", "eligible_only", "=", "true",
                              "&", "format", "=", "json">>)
        /\ "min_liquidity_1M" \in Range(url) =>
              (~args.filter.given \/ "min_liquidity_1M" \in SuppliedLexemes)

\* C8 witness: a request made with filter="unfiltered"
C8_Witness ==
    /\ op = "get_pairs_data"
    /\ pc = "done"
    /\ args.filter = [given |-> TRUE, value |-> <<"unfiltered">>]
    /\ \E i \in 1..Len(QueryParams(url)) :
          QueryParams(url)[i] = [name |-> <<"filter">>, value |-> <<"unfiltered">>]

(***************************************************************************)
(* Properties of the instance.                                             *)
(***************************************************************************)
\* the api_extension of the running call
ExtensionOfCall ==
    CASE op = "get_chain_data" -> <<"chains">>
      [] op = "get_exchange_data" ->
            ExchangesExtension(args.selected_chain, args.filter_zero_volume)
      [] op = "get_pairs_data" ->
            PairsExtension(args.exc_slugs, args.chain_slugs, args.n_pairs,
                           args.sort, FilterInEffect)
      [] op = "get_ohlcv_candles" ->
            CandlesExtension(args.pair_ids, args.start_time, args.end_time,
                             args.time_bucket, args.max_bytes)

\* the pair identifiers of the lines, in the order of their first occurrence
RECURSIVE FirstSeen(_)
FirstSeen(lines) ==
    IF lines = <<>> THEN <<>>
    ELSE LET before == FirstSeen(SubSeq(lines, 1, Len(lines) - 1))
             k == lines[Len(lines)].obj.p
         IN IF k \in Range(before) THEN before ELSE Append(before, k)

\* the collection a response gives when nothing but the response decides it
CollectionOf(lines) ==
    [e \in 1..Len(FirstSeen(lines)) |->
        [key |-> FirstSeen(lines)[e], value |-> RowsOfPair(lines, FirstSeen(lines)[e])]]

\* the value a call returns when nothing but its own response decides it
ResultOfCall ==
    CASE op = "get_chain_data" -> ChainTable(body)
      [] op = "get_exchange_data" -> ExchangeTable(body)
      [] op = "get_pairs_data" -> PairTable(body)
      [] op = "get_ohlcv_candles" -> CollectionOf(body)

\* C10: after any sequence of calls, successful or failed, api_url is the value
\* set at construction; the request of a call is decided by its arguments and
\* the result by its own response, nothing carries over from an earlier call
\* (the locals of get_ohlcv_candles start empty).
C10_CallsLeaveNoTrace ==
    /\ api_url = ctor_api_url
    /\ pc # "idle" => url = ctor_api_url \o ExtensionOfCall
    /\ pc = "done" => result = ResultOfCall
    /\ (InCandles /\ pc = "reading" /\ pos = 0) => candle_dict = <<>>
    /\ pc = "idle" => (candle_dict = <<>> /\ return_dict = <<>> /\ result = <<>>)

\* C10 witness: the second call on the instance has returned a collection
C10_Witness ==
    /\ calls = 2
    /\ api_url = ctor_api_url
    /\ InCandles
    /\ pc = "done"
    /\ Len(result) = 2

====
